---- MODULE Spec2Model ----
(***************************************************************************)
(* Model of the hotel-booking record stores of act-6.2: Customer, Hotel    *)
(* and Reservation, each persisted as one JSON file that every operation   *)
(* loads whole, scans linearly, mutates and rewrites.                      *)
(*                                                                         *)
(* A file is a record [kind, records]:                                     *)
(*   kind = "missing"      the path does not exist                         *)
(*   kind = "json"         the file holds a JSON array, `records`          *)
(*   kind = "malformed"    the file holds text that is not JSON            *)
(*   kind = "undecodable"  the file holds bytes that are not UTF-8 text    *)
(* A Python string is a TLA+ string, except an email, which is the         *)
(* sequence of its characters so that `"@" in email` is computed.          *)
(* A returned value is "ok" (an instance, a dict or True), "fail" (None or *)
(* False) or "raise" (an exception left the operation).                    *)
(***************************************************************************)
EXTENDS Integers, Sequences, FiniteSets, TLC

VARIABLES customers, hotels, reservations, call, ret, msg, loaded,
          reserved_from, streak, invocations, overlapped

vars ==
  <<customers, hotels, reservations, call, ret, msg, loaded,
    reserved_from, streak, invocations, overlapped>>

stores == <<customers, hotels, reservations>>

(* ---- bounds of the model ---- *)
MaxRooms == 2

(* ---- inputs the operations are called with ---- *)
CustomerIds == {"", "c1", "c2"}

(* the customers of the booking runs, where the hotels carry the variety *)
BookingCustomerIds == {"", "c1"}

HotelIds == {"", "h1", "h2"}

ReservationIds == {"", "r1", "r2"}

Names == {"", "n1"}

Locations == {"l1"}

Emails == {<<>>, <<"a">>, <<"@">>, <<"a", "@">>}

(* a rooms argument: an int, or a value of another type such as "ten" *)
RoomsInputs ==
  {[type |-> "int", val |-> n] : n \in (-1)..MaxRooms}
    \cup {[type |-> "str", val |-> 10]}

(* the emails of the booking runs: one that is refused, one that is kept *)
BookingEmails == {<<>>, <<"a", "@">>}

(* the name and the location modify_hotel is given when those of the      *)
(* hotel store are exercised on their own                                 *)
ModifyNames == {"n2"}

ModifyLocations == {"l2"}

(* the ids of the runs that call every operation: the empty id and one id *)
(* per store                                                              *)
SoleHotelIds == {"", "h1"}

SoleReservationIds == {"", "r1"}

(* the kwargs of modify_hotel in the booking runs: none, rooms alone, all *)
BookingModifyKeys == {{}, {"rooms"}, {"name", "location", "rooms"}}

(* ---- files ---- *)
MissingFile == [kind |-> "missing", records |-> <<>>]

JsonFile(records) == [kind |-> "json", records |-> records]

(* open() + json.load() leave load_all with an exception that is neither   *)
(* json.JSONDecodeError nor IOError: UnicodeDecodeError                    *)
LoadRaises(file) == file.kind = "undecodable"

(* ---- helpers for the scans ---- *)
Indices(records, key, id) ==
  {i \in DOMAIN records : records[i][key] = id}

(* any(r[key] == id for r in records) *)
AnyMatch(records, key, id) == Indices(records, key, id) # {}

(* the record a `for record in records: if record[key] == id` loop stops at *)
First(records, key, id) ==
  CHOOSE i \in Indices(records, key, id) :
    \A j \in Indices(records, key, id) : i <= j

(* [r for r in records if r[key] != id] *)
Without(records, key, id) ==
  SelectSeq(records, LAMBDA r : r[key] # id)

(* the outcome of a call: returned value, printed message, file written *)
Outcome(r, m, file) == [ret |-> r, msg |-> m, file |-> file]

(* ================= Customer ================= *)

Customer_to_dict(customer_id, name, email) ==
  [customer_id |-> customer_id, name |-> name, email |-> email]

Customer_load_all(file) ==
  IF file.kind = "json" THEN file.records ELSE <<>>

Customer_save_all(records) == JsonFile(records)

(* mutant: only `not email` is tested *)
_validate_email_nonempty(email) == email # <<>>

_validate_email(email) ==
  ~(email = <<>> \/ ~(\E i \in DOMAIN email : email[i] = "@"))

(* mutant: the scan for an existing customer_id is skipped *)
Customer_create_unchecked(file, customer_id, name, email) ==
  IF customer_id = "" \/ name = ""
    THEN Outcome("fail", "required", file)
  ELSE IF ~_validate_email(email)
    THEN Outcome("fail", "invalid_email", file)
  ELSE Outcome("ok", "none",
         Customer_save_all(
           Append(Customer_load_all(file),
                  Customer_to_dict(customer_id, name, email))))

Customer_create(file, customer_id, name, email) ==
  IF customer_id = "" \/ name = ""
    THEN Outcome("fail", "required", file)
  ELSE IF ~_validate_email(email)
    THEN Outcome("fail", "invalid_email", file)
  ELSE IF LoadRaises(file)
    THEN Outcome("raise", "none", file)
  ELSE IF AnyMatch(Customer_load_all(file), "customer_id", customer_id)
    THEN Outcome("fail", "exists", file)
  ELSE Outcome("ok", "none",
         Customer_save_all(
           Append(Customer_load_all(file),
                  Customer_to_dict(customer_id, name, email))))

Customer_delete(file, customer_id) ==
  IF LoadRaises(file)
    THEN Outcome("raise", "none", file)
  ELSE IF Len(Without(Customer_load_all(file), "customer_id", customer_id))
            = Len(Customer_load_all(file))
    THEN Outcome("fail", "not_found", file)
  ELSE Outcome("ok", "none",
         Customer_save_all(
           Without(Customer_load_all(file), "customer_id", customer_id)))

Customer_display(file, customer_id) ==
  IF LoadRaises(file)
    THEN Outcome("raise", "none", file)
  ELSE IF AnyMatch(Customer_load_all(file), "customer_id", customer_id)
    THEN Outcome("ok", "shown", file)
  ELSE Outcome("fail", "not_found", file)

(* mutant: only the name is copied from kwargs *)
Customer_update_name_only(record, kwargs) ==
  [key \in DOMAIN record |->
     IF key \in {"name"} /\ key \in DOMAIN kwargs
       THEN kwargs[key] ELSE record[key]]

(* for key in ("name", "email"): if key in kwargs: record[key] = kwargs[key] *)
Customer_update(record, kwargs) ==
  [key \in DOMAIN record |->
     IF key \in {"name", "email"} /\ key \in DOMAIN kwargs
       THEN kwargs[key] ELSE record[key]]

(* mutant: the supplied email is applied without being validated *)
Customer_modify_unvalidated(file, customer_id, kwargs) ==
  IF LoadRaises(file)
    THEN Outcome("raise", "none", file)
  ELSE IF ~AnyMatch(Customer_load_all(file), "customer_id", customer_id)
    THEN Outcome("fail", "not_found", file)
  ELSE LET records == Customer_load_all(file)
           i == First(records, "customer_id", customer_id)
       IN Outcome("ok", "none",
            Customer_save_all(
              [records EXCEPT ![i] = Customer_update(records[i], kwargs)]))

Customer_modify(file, customer_id, kwargs) ==
  IF LoadRaises(file)
    THEN Outcome("raise", "none", file)
  ELSE IF ~AnyMatch(Customer_load_all(file), "customer_id", customer_id)
    THEN Outcome("fail", "not_found", file)
  ELSE IF "email" \in DOMAIN kwargs /\ ~_validate_email(kwargs["email"])
    THEN Outcome("fail", "invalid_email", file)
  ELSE LET records == Customer_load_all(file)
           i == First(records, "customer_id", customer_id)
       IN Outcome("ok", "none",
            Customer_save_all(
              [records EXCEPT ![i] = Customer_update(records[i], kwargs)]))

(* ================= Hotel ================= *)

(* Hotel.__init__ sets rooms_available = rooms; to_dict serialises it *)
Hotel_to_dict(hotel_id, name, location, rooms) ==
  [hotel_id |-> hotel_id, name |-> name, location |-> location,
   rooms |-> rooms, rooms_available |-> rooms]

Hotel_load_all(file) ==
  IF file.kind = "json" THEN file.records ELSE <<>>

Hotel_save_all(records) == JsonFile(records)

(* isinstance(value, int) and value > 0 *)
_validate_rooms(value) ==
  ~(value.type # "int" \/ value.val <= 0)

Max(a, b) == IF a >= b THEN a ELSE b

(* mutant: the test on rooms is `< 0`, so that 0 rooms are accepted *)
Hotel_create_accepts_zero(file, hotel_id, name, location, rooms) ==
  IF hotel_id = "" \/ name = ""
    THEN Outcome("fail", "required", file)
  ELSE IF rooms.type # "int" \/ rooms.val < 0
    THEN Outcome("fail", "invalid_rooms", file)
  ELSE IF AnyMatch(Hotel_load_all(file), "hotel_id", hotel_id)
    THEN Outcome("fail", "exists", file)
  ELSE Outcome("ok", "none",
         Hotel_save_all(
           Append(Hotel_load_all(file),
                  Hotel_to_dict(hotel_id, name, location, rooms.val))))

Hotel_create(file, hotel_id, name, location, rooms) ==
  IF hotel_id = "" \/ name = ""
    THEN Outcome("fail", "required", file)
  ELSE IF rooms.type # "int" \/ rooms.val <= 0
    THEN Outcome("fail", "invalid_rooms", file)
  ELSE IF LoadRaises(file)
    THEN Outcome("raise", "none", file)
  ELSE IF AnyMatch(Hotel_load_all(file), "hotel_id", hotel_id)
    THEN Outcome("fail", "exists", file)
  ELSE Outcome("ok", "none",
         Hotel_save_all(
           Append(Hotel_load_all(file),
                  Hotel_to_dict(hotel_id, name, location, rooms.val))))

(* mutant: every record is dropped once the id was found *)
Hotel_delete_all(file, hotel_id) ==
  IF Len(Without(Hotel_load_all(file), "hotel_id", hotel_id))
       = Len(Hotel_load_all(file))
    THEN Outcome("fail", "not_found", file)
  ELSE Outcome("ok", "none", Hotel_save_all(<<>>))

Hotel_delete(file, hotel_id) ==
  IF LoadRaises(file)
    THEN Outcome("raise", "none", file)
  ELSE IF Len(Without(Hotel_load_all(file), "hotel_id", hotel_id))
            = Len(Hotel_load_all(file))
    THEN Outcome("fail", "not_found", file)
  ELSE Outcome("ok", "none",
         Hotel_save_all(Without(Hotel_load_all(file), "hotel_id", hotel_id)))

Hotel_display(file, hotel_id) ==
  IF LoadRaises(file)
    THEN Outcome("raise", "none", file)
  ELSE IF AnyMatch(Hotel_load_all(file), "hotel_id", hotel_id)
    THEN Outcome("ok", "shown", file)
  ELSE Outcome("fail", "not_found", file)

(* mutant: rooms_available is left as it was when rooms changes *)
Hotel_adjust_kept(record, kwargs) == record

(* mutant: the delta is applied without the clamp at 0 *)
Hotel_adjust_unclamped(record, kwargs) ==
  IF "rooms" \in DOMAIN kwargs
    THEN [record EXCEPT !.rooms_available =
            record.rooms_available + (kwargs["rooms"].val - record.rooms)]
    ELSE record

(* rooms_available = max(0, rooms_available + (kwargs["rooms"] - rooms)) *)
Hotel_adjust(record, kwargs) ==
  IF "rooms" \in DOMAIN kwargs
    THEN [record EXCEPT !.rooms_available =
            Max(0, record.rooms_available
                     + (kwargs["rooms"].val - record.rooms))]
    ELSE record

(* for key in ("name", "location", "rooms"): if key in kwargs: ... *)
Hotel_update(record, kwargs) ==
  [key \in DOMAIN record |->
     IF key \in {"name", "location"} /\ key \in DOMAIN kwargs
       THEN kwargs[key]
     ELSE IF key = "rooms" /\ key \in DOMAIN kwargs
       THEN kwargs[key].val
     ELSE record[key]]

(* mutant: name and location are copied and saved before rooms is         *)
(* validated                                                              *)
Hotel_modify_saves_first(file, hotel_id, kwargs) ==
  IF ~AnyMatch(Hotel_load_all(file), "hotel_id", hotel_id)
    THEN Outcome("fail", "not_found", file)
  ELSE LET records == Hotel_load_all(file)
           i == First(records, "hotel_id", hotel_id)
       IN IF "rooms" \in DOMAIN kwargs /\ ~_validate_rooms(kwargs["rooms"])
            THEN Outcome("fail", "invalid_rooms",
                   Hotel_save_all(
                     [records EXCEPT
                        ![i] = Hotel_update(records[i],
                                 [key \in DOMAIN kwargs \ {"rooms"} |->
                                    kwargs[key]])]))
            ELSE Outcome("ok", "none",
                   Hotel_save_all(
                     [records EXCEPT
                        ![i] = Hotel_update(Hotel_adjust(records[i], kwargs),
                                            kwargs)]))

Hotel_modify(file, hotel_id, kwargs) ==
  IF LoadRaises(file)
    THEN Outcome("raise", "none", file)
  ELSE IF ~AnyMatch(Hotel_load_all(file), "hotel_id", hotel_id)
    THEN Outcome("fail", "not_found", file)
  ELSE IF "rooms" \in DOMAIN kwargs /\ ~_validate_rooms(kwargs["rooms"])
    THEN Outcome("fail", "invalid_rooms", file)
  ELSE LET records == Hotel_load_all(file)
           i == First(records, "hotel_id", hotel_id)
       IN Outcome("ok", "none",
            Hotel_save_all(
              [records EXCEPT
                 ![i] = Hotel_update(Hotel_adjust(records[i], kwargs),
                                     kwargs)]))

(* mutant: the decremented records are never saved *)
Hotel_reserve_room_unsaved(file, hotel_id) ==
  IF ~AnyMatch(Hotel_load_all(file), "hotel_id", hotel_id)
    THEN Outcome("fail", "not_found", file)
  ELSE LET records == Hotel_load_all(file)
           i == First(records, "hotel_id", hotel_id)
       IN IF records[i].rooms_available <= 0
            THEN Outcome("fail", "no_rooms", file)
            ELSE Outcome("ok", "none", file)

(* mutant: the test for no room left is `< 0` *)
Hotel_reserve_room_off_by_one(file, hotel_id) ==
  IF ~AnyMatch(Hotel_load_all(file), "hotel_id", hotel_id)
    THEN Outcome("fail", "not_found", file)
  ELSE LET records == Hotel_load_all(file)
           i == First(records, "hotel_id", hotel_id)
       IN IF records[i].rooms_available < 0
            THEN Outcome("fail", "no_rooms", file)
            ELSE Outcome("ok", "none",
                   Hotel_save_all(
                     [records EXCEPT ![i].rooms_available = @ - 1]))

(* mutant: the room is taken from the first record, whatever its hotel_id *)
Hotel_reserve_room_first_record(file, hotel_id) ==
  IF ~AnyMatch(Hotel_load_all(file), "hotel_id", hotel_id)
    THEN Outcome("fail", "not_found", file)
  ELSE LET records == Hotel_load_all(file)
       IN IF records[1].rooms_available <= 0
            THEN Outcome("fail", "no_rooms", file)
            ELSE Outcome("ok", "none",
                   Hotel_save_all(
                     [records EXCEPT ![1].rooms_available = @ - 1]))

Hotel_reserve_room(file, hotel_id) ==
  IF LoadRaises(file)
    THEN Outcome("raise", "none", file)
  ELSE IF ~AnyMatch(Hotel_load_all(file), "hotel_id", hotel_id)
    THEN Outcome("fail", "not_found", file)
  ELSE LET records == Hotel_load_all(file)
           i == First(records, "hotel_id", hotel_id)
       IN IF records[i].rooms_available <= 0
            THEN Outcome("fail", "no_rooms", file)
            ELSE Outcome("ok", "none",
                   Hotel_save_all(
                     [records EXCEPT ![i].rooms_available = @ - 1]))

(* mutant: the test for every room free is `>` *)
Hotel_cancel_reservation_above(file, hotel_id) ==
  IF ~AnyMatch(Hotel_load_all(file), "hotel_id", hotel_id)
    THEN Outcome("fail", "not_found", file)
  ELSE LET records == Hotel_load_all(file)
           i == First(records, "hotel_id", hotel_id)
       IN IF records[i].rooms_available > records[i].rooms
            THEN Outcome("fail", "all_available", file)
            ELSE Outcome("ok", "none",
                   Hotel_save_all(
                     [records EXCEPT ![i].rooms_available = @ + 1]))

(* mutant: the incremented records are never saved *)
Hotel_cancel_reservation_unsaved(file, hotel_id) ==
  IF ~AnyMatch(Hotel_load_all(file), "hotel_id", hotel_id)
    THEN Outcome("fail", "not_found", file)
  ELSE LET records == Hotel_load_all(file)
           i == First(records, "hotel_id", hotel_id)
       IN IF records[i].rooms_available >= records[i].rooms
            THEN Outcome("fail", "all_available", file)
            ELSE Outcome("ok", "none", file)

Hotel_cancel_reservation(file, hotel_id) ==
  IF LoadRaises(file)
    THEN Outcome("raise", "none", file)
  ELSE IF ~AnyMatch(Hotel_load_all(file), "hotel_id", hotel_id)
    THEN Outcome("fail", "not_found", file)
  ELSE LET records == Hotel_load_all(file)
           i == First(records, "hotel_id", hotel_id)
       IN IF records[i].rooms_available >= records[i].rooms
            THEN Outcome("fail", "all_available", file)
            ELSE Outcome("ok", "none",
                   Hotel_save_all(
                     [records EXCEPT ![i].rooms_available = @ + 1]))

(* ================= Reservation ================= *)

Reservation_to_dict(reservation_id, customer_id, hotel_id) ==
  [reservation_id |-> reservation_id, customer_id |-> customer_id,
   hotel_id |-> hotel_id]

Reservation_load_all(file) ==
  IF file.kind = "json" THEN file.records ELSE <<>>

Reservation_save_all(records) == JsonFile(records)

(* the outcome of a Reservation call: it may write two files *)
Outcome2(r, m, file, hotel_file) ==
  [ret |-> r, msg |-> m, file |-> file, hotel_file |-> hotel_file]

(* mutant: the room is reserved before reservation_id is looked up *)
Reservation_create_reserve_first(file, hotel_file, customer_file, reservation_id, customer_id, hotel_id) ==
  IF reservation_id = ""
    THEN Outcome2("fail", "required", file, hotel_file)
  ELSE IF ~AnyMatch(Customer_load_all(customer_file),
                    "customer_id", customer_id)
    THEN Outcome2("fail", "customer_not_found", file, hotel_file)
  ELSE IF ~AnyMatch(Hotel_load_all(hotel_file), "hotel_id", hotel_id)
    THEN Outcome2("fail", "hotel_not_found", file, hotel_file)
  ELSE LET reserved == Hotel_reserve_room(hotel_file, hotel_id)
       IN IF reserved.ret # "ok"
            THEN Outcome2(reserved.ret, reserved.msg, file, hotel_file)
          ELSE IF AnyMatch(Reservation_load_all(file),
                           "reservation_id", reservation_id)
            THEN Outcome2("fail", "exists", file, reserved.file)
          ELSE Outcome2("ok", "none",
                 Reservation_save_all(
                   Append(Reservation_load_all(file),
                          Reservation_to_dict(reservation_id,
                                              customer_id, hotel_id))),
                 reserved.file)

(* mutant: the customer is not looked up *)
Reservation_create_any_customer(file, hotel_file, customer_file, reservation_id, customer_id, hotel_id) ==
  IF reservation_id = ""
    THEN Outcome2("fail", "required", file, hotel_file)
  ELSE IF AnyMatch(Reservation_load_all(file),
                   "reservation_id", reservation_id)
    THEN Outcome2("fail", "exists", file, hotel_file)
  ELSE IF ~AnyMatch(Hotel_load_all(hotel_file), "hotel_id", hotel_id)
    THEN Outcome2("fail", "hotel_not_found", file, hotel_file)
  ELSE LET reserved == Hotel_reserve_room(hotel_file, hotel_id)
       IN IF reserved.ret # "ok"
            THEN Outcome2(reserved.ret, reserved.msg, file, hotel_file)
            ELSE Outcome2("ok", "none",
                   Reservation_save_all(
                     Append(Reservation_load_all(file),
                            Reservation_to_dict(reservation_id,
                                                customer_id, hotel_id))),
                   reserved.file)

Reservation_create(file, hotel_file, customer_file, reservation_id, customer_id, hotel_id) ==
  IF reservation_id = ""
    THEN Outcome2("fail", "required", file, hotel_file)
  ELSE IF LoadRaises(file)
    THEN Outcome2("raise", "none", file, hotel_file)
  ELSE IF AnyMatch(Reservation_load_all(file),
                   "reservation_id", reservation_id)
    THEN Outcome2("fail", "exists", file, hotel_file)
  ELSE IF LoadRaises(customer_file)
    THEN Outcome2("raise", "none", file, hotel_file)
  ELSE IF ~AnyMatch(Customer_load_all(customer_file),
                    "customer_id", customer_id)
    THEN Outcome2("fail", "customer_not_found", file, hotel_file)
  ELSE IF LoadRaises(hotel_file)
    THEN Outcome2("raise", "none", file, hotel_file)
  ELSE IF ~AnyMatch(Hotel_load_all(hotel_file), "hotel_id", hotel_id)
    THEN Outcome2("fail", "hotel_not_found", file, hotel_file)
  ELSE LET reserved == Hotel_reserve_room(hotel_file, hotel_id)
       IN IF reserved.ret # "ok"
            THEN Outcome2(reserved.ret, reserved.msg, file, hotel_file)
            ELSE Outcome2("ok", "none",
                   Reservation_save_all(
                     Append(Reservation_load_all(file),
                            Reservation_to_dict(reservation_id,
                                                customer_id, hotel_id))),
                   reserved.file)

(* mutant: the record is removed without releasing the room *)
Reservation_cancel_no_release(file, hotel_file, reservation_id) ==
  IF ~AnyMatch(Reservation_load_all(file),
               "reservation_id", reservation_id)
    THEN Outcome2("fail", "not_found", file, hotel_file)
  ELSE Outcome2("ok", "none",
         Reservation_save_all(
           Without(Reservation_load_all(file),
                   "reservation_id", reservation_id)),
         hotel_file)

(* mutant: the call fails, and keeps the record, when the release fails *)
Reservation_cancel_strict(file, hotel_file, reservation_id) ==
  IF ~AnyMatch(Reservation_load_all(file),
               "reservation_id", reservation_id)
    THEN Outcome2("fail", "not_found", file, hotel_file)
  ELSE LET records == Reservation_load_all(file)
           target == records[First(records, "reservation_id",
                                   reservation_id)]
           released == Hotel_cancel_reservation(hotel_file,
                                                target.hotel_id)
       IN IF released.ret # "ok"
            THEN Outcome2("fail", released.msg, file, hotel_file)
            ELSE Outcome2("ok", released.msg,
                   Reservation_save_all(
                     Without(records, "reservation_id", reservation_id)),
                   released.file)

Reservation_cancel(file, hotel_file, reservation_id) ==
  IF LoadRaises(file)
    THEN Outcome2("raise", "none", file, hotel_file)
  ELSE IF ~AnyMatch(Reservation_load_all(file),
                    "reservation_id", reservation_id)
    THEN Outcome2("fail", "not_found", file, hotel_file)
  ELSE LET records == Reservation_load_all(file)
           target == records[First(records, "reservation_id",
                                   reservation_id)]
           released == Hotel_cancel_reservation(hotel_file,
                                                target.hotel_id)
       IN IF released.ret = "raise"
            THEN Outcome2("raise", "none", file, hotel_file)
            ELSE Outcome2("ok", released.msg,
                   Reservation_save_all(
                     Without(records, "reservation_id", reservation_id)),
                   released.file)

(* ================= the operations as steps ================= *)

(* ---- what the model remembers of the calls made so far ---- *)

(* reserved_from: the last call was reserve_room(hotel_id) on a stored     *)
(* hotel that had rooms_available rooms free before it and `reserved` says *)
(* whether it returned True; `released` once release(hotel_id) followed it *)
NoReserve ==
  [hotel_id |-> "", rooms_available |-> -1, reserved |-> FALSE,
   released |-> FALSE]

(* streak: hotel_id was created with `rooms` rooms and only reserve_room   *)
(* and create_reservation calls on it followed, `reserved` of them with    *)
(* success                                                                 *)
NoStreak == [hotel_id |-> "", rooms |-> 0, reserved |-> 0]

Forgets ==
  /\ reserved_from' = NoReserve
  /\ streak' = NoStreak

Reserving(hotel_id, outcome) ==
  streak' =
    IF hotel_id # "" /\ streak.hotel_id = hotel_id
      THEN IF outcome.ret = "ok"
             THEN [streak EXCEPT !.reserved = @ + 1]
             ELSE streak
      ELSE NoStreak

(* invocations: the calls of reserve_room and create_reservation that      *)
(* have loaded a file and not yet returned, one per caller; `records` is   *)
(* what create_reservation loaded from the reservation file and            *)
(* `hotel_records` what reserve_room loaded from the hotel file            *)
Callers == {"p1", "p2"}

Idle ==
  [op |-> "none", pc |-> "idle", reservation_id |-> "", customer_id |-> "",
   hotel_id |-> "", records |-> <<>>, hotel_records |-> <<>>]

(* rooms_available of the stored hotel hotel_id, -1 when there is none *)
RoomsAvailable(file, hotel_id) ==
  IF AnyMatch(Hotel_load_all(file), "hotel_id", hotel_id)
    THEN Hotel_load_all(file)[First(Hotel_load_all(file),
                                    "hotel_id", hotel_id)].rooms_available
    ELSE -1

(* what the caller sees of a call *)
Answers(name, outcome) ==
  /\ call' = name
  /\ ret' = outcome.ret
  /\ msg' = outcome.msg
  /\ loaded' = <<>>

(* a call that ran from its load to its return with no other call in      *)
(* between                                                                 *)
Returns(name, outcome) ==
  /\ Answers(name, outcome)
  /\ UNCHANGED <<invocations, overlapped>>

create_customer(customer_id, name, email) ==
  LET outcome == Customer_create(customers, customer_id, name, email)
  IN /\ customers' = outcome.file
     /\ Returns("create_customer", outcome)
     /\ Forgets
     /\ UNCHANGED <<hotels, reservations>>

(* mutant: the reservations of the deleted customer are removed with it *)
delete_customer_cascading(customer_id) ==
  LET outcome == Customer_delete(customers, customer_id)
  IN /\ customers' = outcome.file
     /\ reservations' =
          IF outcome.ret = "ok"
            THEN Reservation_save_all(
                   Without(Reservation_load_all(reservations),
                           "customer_id", customer_id))
            ELSE reservations
     /\ Returns("delete_customer", outcome)
     /\ Forgets
     /\ UNCHANGED hotels

delete_customer(customer_id) ==
  LET outcome == Customer_delete(customers, customer_id)
  IN /\ customers' = outcome.file
     /\ Returns("delete_customer", outcome)
     /\ Forgets
     /\ UNCHANGED <<hotels, reservations>>

display_customer(customer_id) ==
  LET outcome == Customer_display(customers, customer_id)
  IN /\ Returns("display_customer", outcome)
     /\ Forgets
     /\ UNCHANGED <<customers, hotels, reservations>>

modify_customer(customer_id, kwargs) ==
  LET outcome == Customer_modify(customers, customer_id, kwargs)
  IN /\ customers' = outcome.file
     /\ Returns("modify_customer", outcome)
     /\ Forgets
     /\ UNCHANGED <<hotels, reservations>>

create_hotel(hotel_id, name, location, rooms) ==
  LET outcome == Hotel_create(hotels, hotel_id, name, location, rooms)
  IN /\ hotels' = outcome.file
     /\ Returns("create_hotel", outcome)
     /\ reserved_from' = NoReserve
     /\ streak' = IF outcome.ret = "ok"
                    THEN [hotel_id |-> hotel_id, rooms |-> rooms.val,
                          reserved |-> 0]
                    ELSE NoStreak
     /\ UNCHANGED <<customers, reservations>>

delete_hotel(hotel_id) ==
  LET outcome == Hotel_delete(hotels, hotel_id)
  IN /\ hotels' = outcome.file
     /\ Returns("delete_hotel", outcome)
     /\ Forgets
     /\ UNCHANGED <<customers, reservations>>

display_hotel(hotel_id) ==
  LET outcome == Hotel_display(hotels, hotel_id)
  IN /\ Returns("display_hotel", outcome)
     /\ Forgets
     /\ UNCHANGED <<customers, hotels, reservations>>

modify_hotel(hotel_id, kwargs) ==
  LET outcome == Hotel_modify(hotels, hotel_id, kwargs)
  IN /\ hotels' = outcome.file
     /\ Returns("modify_hotel", outcome)
     /\ Forgets
     /\ UNCHANGED <<customers, reservations>>

(* Hotel.reserve_room; reserved_from remembers the hotel and the           *)
(* rooms_available it had before the call                                  *)
reserve_room(hotel_id) ==
  LET outcome == Hotel_reserve_room(hotels, hotel_id)
  IN /\ hotels' = outcome.file
     /\ Returns("reserve_room", outcome)
     /\ reserved_from' =
          IF AnyMatch(Hotel_load_all(hotels), "hotel_id", hotel_id)
            THEN [hotel_id |-> hotel_id,
                  rooms_available |-> RoomsAvailable(hotels, hotel_id),
                  reserved |-> outcome.ret = "ok",
                  released |-> FALSE]
            ELSE NoReserve
     /\ Reserving(hotel_id, outcome)
     /\ UNCHANGED <<customers, reservations>>

(* Hotel.cancel_reservation, the spec's release *)
release_room(hotel_id) ==
  LET outcome == Hotel_cancel_reservation(hotels, hotel_id)
  IN /\ hotels' = outcome.file
     /\ Returns("Hotel.cancel_reservation", outcome)
     /\ reserved_from' =
          IF hotel_id # "" /\ reserved_from.hotel_id = hotel_id
               /\ ~reserved_from.released
            THEN [reserved_from EXCEPT !.released = TRUE]
            ELSE NoReserve
     /\ streak' = NoStreak
     /\ UNCHANGED <<customers, reservations>>

create_reservation(reservation_id, customer_id, hotel_id) ==
  LET outcome == Reservation_create(reservations, hotels, customers,
                                    reservation_id, customer_id, hotel_id)
  IN /\ reservations' = outcome.file
     /\ hotels' = outcome.hotel_file
     /\ Returns("create_reservation", outcome)
     /\ reserved_from' = NoReserve
     /\ Reserving(hotel_id, outcome)
     /\ UNCHANGED customers

(* Reservation.cancel_reservation *)
cancel_reservation(reservation_id) ==
  LET outcome == Reservation_cancel(reservations, hotels, reservation_id)
  IN /\ reservations' = outcome.file
     /\ hotels' = outcome.hotel_file
     /\ Returns("Reservation.cancel_reservation", outcome)
     /\ Forgets
     /\ UNCHANGED customers

(* ---- the kwargs of the two modify operations ---- *)
CustomerKwargs(keys, name, email) ==
  [key \in keys |-> IF key = "name" THEN name ELSE email]

HotelKwargs(keys, name, location, rooms) ==
  [key \in keys |->
     IF key = "name" THEN name
     ELSE IF key = "location" THEN location
     ELSE rooms]

(* ---- load_all called on its own, as the tests do ---- *)
LoadOutcome(file) ==
  IF LoadRaises(file) THEN Outcome("raise", "none", file)
  ELSE IF file.kind = "malformed" THEN Outcome("ok", "load_error", file)
  ELSE Outcome("ok", "none", file)

load_customers ==
  /\ call' = "Customer.load_all"
  /\ ret' = LoadOutcome(customers).ret
  /\ msg' = LoadOutcome(customers).msg
  /\ loaded' = IF LoadRaises(customers) THEN <<>>
               ELSE Customer_load_all(customers)
  /\ Forgets
  /\ UNCHANGED <<customers, hotels, reservations, invocations, overlapped>>

load_hotels ==
  /\ call' = "Hotel.load_all"
  /\ ret' = LoadOutcome(hotels).ret
  /\ msg' = LoadOutcome(hotels).msg
  /\ loaded' = IF LoadRaises(hotels) THEN <<>> ELSE Hotel_load_all(hotels)
  /\ Forgets
  /\ UNCHANGED <<customers, hotels, reservations, invocations, overlapped>>

load_reservations ==
  /\ call' = "Reservation.load_all"
  /\ ret' = LoadOutcome(reservations).ret
  /\ msg' = LoadOutcome(reservations).msg
  /\ loaded' = IF LoadRaises(reservations) THEN <<>>
               ELSE Reservation_load_all(reservations)
  /\ Forgets
  /\ UNCHANGED <<customers, hotels, reservations, invocations, overlapped>>

(* ---- the file system outside the program ---- *)
DamagedFiles ==
  {[kind |-> "malformed", records |-> <<>>],
   [kind |-> "undecodable", records |-> <<>>]}

Outside ==
  /\ call' = "outside"
  /\ ret' = "ok"
  /\ msg' = "none"
  /\ loaded' = <<>>
  /\ Forgets
  /\ UNCHANGED <<invocations, overlapped>>

(* a file is overwritten with something that is not a JSON document *)
damage_file ==
  /\ \E file \in DamagedFiles :
       \/ customers' = file /\ UNCHANGED <<hotels, reservations>>
       \/ hotels' = file /\ UNCHANGED <<customers, reservations>>
       \/ reservations' = file /\ UNCHANGED <<customers, hotels>>
  /\ Outside

(* a file is removed *)
remove_file ==
  /\ \/ customers' = MissingFile /\ UNCHANGED <<hotels, reservations>>
     \/ hotels' = MissingFile /\ UNCHANGED <<customers, reservations>>
     \/ reservations' = MissingFile /\ UNCHANGED <<customers, hotels>>
  /\ Outside

(* ---- reserve_room and create_reservation as their loads and saves ---- *)
(* Nothing locks a file between the load_all and the save_all of a call,   *)
(* so that another caller's steps can fall between them.                   *)
Overlapping(caller) ==
  \E other \in Callers \ {caller} : invocations[other] # Idle

AllReturned == \A caller \in Callers : invocations[caller] = Idle

(* Hotel.reserve_room up to its load_all *)
reserve_room_load(caller, hotel_id) ==
  /\ invocations[caller] = Idle
  /\ invocations' =
       [invocations EXCEPT
          ![caller] = [Idle EXCEPT !.op = "reserve_room",
                                   !.pc = "loaded",
                                   !.hotel_id = hotel_id,
                                   !.hotel_records = Hotel_load_all(hotels)]]
  /\ overlapped' = (overlapped \/ Overlapping(caller))
  /\ UNCHANGED <<customers, hotels, reservations, call, ret, msg, loaded,
                 reserved_from, streak>>

(* Hotel.reserve_room from the scan of the loaded records to its return:   *)
(* the records it saves are the ones it loaded, one room taken             *)
reserve_room_save(caller) ==
  LET invocation == invocations[caller]
      outcome == Hotel_reserve_room(JsonFile(invocation.hotel_records),
                                    invocation.hotel_id)
  IN /\ invocation.op = "reserve_room"
     /\ invocation.pc = "loaded"
     /\ hotels' = IF outcome.ret = "ok" THEN outcome.file ELSE hotels
     /\ Answers("reserve_room", outcome)
     /\ reserved_from' = NoReserve
     /\ Reserving(invocation.hotel_id, outcome)
     /\ invocations' = [invocations EXCEPT ![caller] = Idle]
     /\ UNCHANGED <<customers, reservations, overlapped>>

(* create_reservation up to the call of Hotel.reserve_room: the            *)
(* reservations are loaded and kept, the id, the customer and the hotel    *)
(* are checked. The customer file is written by no call in flight and no   *)
(* call in flight adds or removes a hotel, so the three loads are taken    *)
(* at one instant.                                                         *)
create_reservation_load(caller, reservation_id, customer_id, hotel_id) ==
  LET outcome == Reservation_create(reservations, hotels, customers,
                                    reservation_id, customer_id, hotel_id)
      refused == outcome.msg \in {"required", "exists", "customer_not_found",
                                  "hotel_not_found"}
  IN /\ invocations[caller] = Idle
     /\ overlapped' = (overlapped \/ Overlapping(caller))
     /\ IF refused
          THEN /\ Answers("create_reservation", outcome)
               /\ reserved_from' = NoReserve
               /\ Reserving(hotel_id, outcome)
               /\ UNCHANGED invocations
          ELSE /\ invocations' =
                    [invocations EXCEPT
                       ![caller] =
                          [Idle EXCEPT
                             !.op = "create_reservation",
                             !.pc = "checked",
                             !.reservation_id = reservation_id,
                             !.customer_id = customer_id,
                             !.hotel_id = hotel_id,
                             !.records = Reservation_load_all(reservations)]]
               /\ UNCHANGED <<call, ret, msg, loaded, reserved_from, streak>>
     /\ UNCHANGED <<customers, hotels, reservations>>

(* the load_all of the Hotel.reserve_room that create_reservation calls *)
create_reservation_reserve_load(caller) ==
  /\ invocations[caller].op = "create_reservation"
  /\ invocations[caller].pc = "checked"
  /\ invocations' =
       [invocations EXCEPT
          ![caller].pc = "loaded",
          ![caller].hotel_records = Hotel_load_all(hotels)]
  /\ UNCHANGED <<customers, hotels, reservations, call, ret, msg, loaded,
                 reserved_from, streak, overlapped>>

(* the rest of that Hotel.reserve_room; create_reservation returns None    *)
(* when it returned False                                                  *)
create_reservation_reserve_save(caller) ==
  LET invocation == invocations[caller]
      outcome == Hotel_reserve_room(JsonFile(invocation.hotel_records),
                                    invocation.hotel_id)
  IN /\ invocation.op = "create_reservation"
     /\ invocation.pc = "loaded"
     /\ IF outcome.ret = "ok"
          THEN /\ hotels' = outcome.file
               /\ invocations' = [invocations EXCEPT ![caller].pc = "reserved"]
               /\ UNCHANGED <<call, ret, msg, loaded, reserved_from, streak>>
          ELSE /\ Answers("create_reservation", outcome)
               /\ reserved_from' = NoReserve
               /\ Reserving(invocation.hotel_id, outcome)
               /\ invocations' = [invocations EXCEPT ![caller] = Idle]
               /\ UNCHANGED hotels
     /\ UNCHANGED <<customers, reservations, overlapped>>

(* the reservation is appended to the records loaded at the start and the  *)
(* list is saved                                                           *)
create_reservation_save(caller) ==
  LET invocation == invocations[caller]
      outcome ==
        Outcome("ok", "none",
          Reservation_save_all(
            Append(invocation.records,
                   Reservation_to_dict(invocation.reservation_id,
                                       invocation.customer_id,
                                       invocation.hotel_id))))
  IN /\ invocation.op = "create_reservation"
     /\ invocation.pc = "reserved"
     /\ reservations' = outcome.file
     /\ Answers("create_reservation", outcome)
     /\ reserved_from' = NoReserve
     /\ Reserving(invocation.hotel_id, outcome)
     /\ invocations' = [invocations EXCEPT ![caller] = Idle]
     /\ UNCHANGED <<customers, hotels, overlapped>>

(* ================= specifications ================= *)

(* the stores start empty: no file has been written yet *)
Init ==
  /\ customers = MissingFile
  /\ hotels = MissingFile
  /\ reservations = MissingFile
  /\ call = "none"
  /\ ret = "ok"
  /\ msg = "none"
  /\ loaded = <<>>
  /\ reserved_from = NoReserve
  /\ streak = NoStreak
  /\ invocations = [caller \in Callers |-> Idle]
  /\ overlapped = FALSE

(* the booking system: every operation that writes a store *)
Next ==
  \/ \E customer_id \in BookingCustomerIds, name \in Names,
        email \in BookingEmails :
       create_customer(customer_id, name, email)
  \/ \E customer_id \in BookingCustomerIds : delete_customer(customer_id)
  \/ \E hotel_id \in HotelIds, name \in Names, location \in Locations,
        rooms \in RoomsInputs :
       create_hotel(hotel_id, name, location, rooms)
  \/ \E hotel_id \in HotelIds : delete_hotel(hotel_id)
  \/ \E hotel_id \in HotelIds, keys \in BookingModifyKeys,
        name \in Names \ {""}, location \in Locations,
        rooms \in RoomsInputs :
       modify_hotel(hotel_id, HotelKwargs(keys, name, location, rooms))
  \/ \E hotel_id \in HotelIds : reserve_room(hotel_id)
  \/ \E hotel_id \in HotelIds : release_room(hotel_id)
  \/ \E reservation_id \in ReservationIds,
        customer_id \in BookingCustomerIds, hotel_id \in HotelIds :
       create_reservation(reservation_id, customer_id, hotel_id)
  \/ \E reservation_id \in ReservationIds :
       cancel_reservation(reservation_id)

Spec == Init /\ [][Next]_vars

(* the customer store alone, with every input of its four operations *)
NextCustomer ==
  \/ \E customer_id \in CustomerIds, name \in Names, email \in Emails :
       create_customer(customer_id, name, email)
  \/ \E customer_id \in CustomerIds : delete_customer(customer_id)
  \/ \E customer_id \in CustomerIds : display_customer(customer_id)
  \/ \E customer_id \in CustomerIds, keys \in SUBSET {"name", "email"},
        name \in Names, email \in Emails :
       modify_customer(customer_id, CustomerKwargs(keys, name, email))

SpecCustomer == Init /\ [][NextCustomer]_vars

(* one record of each store, with the files damaged or removed behind    *)
(* the program's back                                                     *)
NextEnv ==
  \/ \E name \in Names, email \in BookingEmails :
       create_customer("c1", name, email)
  \/ delete_customer("c1")
  \/ display_customer("c1")
  \/ \E keys \in SUBSET {"name", "email"}, email \in BookingEmails :
       modify_customer("c1", CustomerKwargs(keys, "n1", email))
  \/ \E rooms \in RoomsInputs : create_hotel("h1", "n1", "l1", rooms)
  \/ delete_hotel("h1")
  \/ display_hotel("h1")
  \/ \E keys \in BookingModifyKeys, rooms \in RoomsInputs :
       modify_hotel("h1", HotelKwargs(keys, "n1", "l1", rooms))
  \/ reserve_room("h1")
  \/ release_room("h1")
  \/ create_reservation("r1", "c1", "h1")
  \/ cancel_reservation("r1")
  \/ load_customers
  \/ load_hotels
  \/ load_reservations
  \/ damage_file
  \/ remove_file

SpecEnv == Init /\ [][NextEnv]_vars

(* the hotel store alone, with every input of its six operations *)
NextHotel ==
  \/ \E hotel_id \in HotelIds, name \in Names, location \in Locations,
        rooms \in RoomsInputs :
       create_hotel(hotel_id, name, location, rooms)
  \/ \E hotel_id \in HotelIds : delete_hotel(hotel_id)
  \/ \E hotel_id \in HotelIds : display_hotel(hotel_id)
  \/ \E hotel_id \in HotelIds,
        keys \in SUBSET {"name", "location", "rooms"},
        name \in ModifyNames, location \in ModifyLocations,
        rooms \in RoomsInputs :
       modify_hotel(hotel_id, HotelKwargs(keys, name, location, rooms))
  \/ \E hotel_id \in HotelIds : reserve_room(hotel_id)
  \/ \E hotel_id \in HotelIds : release_room(hotel_id)

SpecHotel == Init /\ [][NextHotel]_vars

(* the customer store and the hotel store with their create, delete and   *)
(* display operations                                                     *)
NextStores ==
  \/ \E customer_id \in CustomerIds, name \in Names,
        email \in BookingEmails :
       create_customer(customer_id, name, email)
  \/ \E customer_id \in CustomerIds : delete_customer(customer_id)
  \/ \E customer_id \in CustomerIds : display_customer(customer_id)
  \/ \E hotel_id \in HotelIds, name \in Names, location \in Locations,
        rooms \in RoomsInputs :
       create_hotel(hotel_id, name, location, rooms)
  \/ \E hotel_id \in HotelIds : delete_hotel(hotel_id)
  \/ \E hotel_id \in HotelIds : display_hotel(hotel_id)

SpecStores == Init /\ [][NextStores]_vars

(* the twelve operations on stores of one customer, one hotel and one     *)
(* reservation                                                            *)
NextAll ==
  \/ \E customer_id \in BookingCustomerIds, name \in Names,
        email \in BookingEmails :
       create_customer(customer_id, name, email)
  \/ \E customer_id \in BookingCustomerIds : delete_customer(customer_id)
  \/ \E customer_id \in BookingCustomerIds : display_customer(customer_id)
  \/ \E customer_id \in BookingCustomerIds,
        keys \in SUBSET {"name", "email"}, name \in Names,
        email \in BookingEmails :
       modify_customer(customer_id, CustomerKwargs(keys, name, email))
  \/ \E hotel_id \in SoleHotelIds, name \in Names, location \in Locations,
        rooms \in RoomsInputs :
       create_hotel(hotel_id, name, location, rooms)
  \/ \E hotel_id \in SoleHotelIds : delete_hotel(hotel_id)
  \/ \E hotel_id \in SoleHotelIds : display_hotel(hotel_id)
  \/ \E hotel_id \in SoleHotelIds, keys \in BookingModifyKeys,
        name \in ModifyNames, location \in Locations,
        rooms \in RoomsInputs :
       modify_hotel(hotel_id, HotelKwargs(keys, name, location, rooms))
  \/ \E hotel_id \in SoleHotelIds : reserve_room(hotel_id)
  \/ \E hotel_id \in SoleHotelIds : release_room(hotel_id)
  \/ \E reservation_id \in SoleReservationIds,
        customer_id \in BookingCustomerIds, hotel_id \in SoleHotelIds :
       create_reservation(reservation_id, customer_id, hotel_id)
  \/ \E reservation_id \in SoleReservationIds :
       cancel_reservation(reservation_id)

SpecAll == Init /\ [][NextAll]_vars

(* bookings alone: customers and hotels are created, reservations are     *)
(* created and cancelled, and nothing else is called                      *)
NextOccupancy ==
  \/ \E customer_id \in BookingCustomerIds, name \in Names,
        email \in BookingEmails :
       create_customer(customer_id, name, email)
  \/ \E hotel_id \in HotelIds, name \in Names, location \in Locations,
        rooms \in RoomsInputs :
       create_hotel(hotel_id, name, location, rooms)
  \/ \E reservation_id \in ReservationIds,
        customer_id \in BookingCustomerIds, hotel_id \in HotelIds :
       create_reservation(reservation_id, customer_id, hotel_id)
  \/ \E reservation_id \in ReservationIds :
       cancel_reservation(reservation_id)

SpecOccupancy == Init /\ [][NextOccupancy]_vars

(* two callers of reserve_room and create_reservation whose loads and      *)
(* saves interleave, on one customer and one hotel created beforehand      *)
NextRace ==
  \/ /\ AllReturned
     /\ \E name \in Names, email \in BookingEmails :
          create_customer("c1", name, email)
  \/ /\ AllReturned
     /\ \E rooms \in RoomsInputs : create_hotel("h1", "n1", "l1", rooms)
  \/ \E caller \in Callers, hotel_id \in SoleHotelIds :
       reserve_room_load(caller, hotel_id)
  \/ \E caller \in Callers : reserve_room_save(caller)
  \/ \E caller \in Callers, reservation_id \in ReservationIds,
        customer_id \in BookingCustomerIds, hotel_id \in SoleHotelIds :
       create_reservation_load(caller, reservation_id, customer_id, hotel_id)
  \/ \E caller \in Callers : create_reservation_reserve_load(caller)
  \/ \E caller \in Callers : create_reservation_reserve_save(caller)
  \/ \E caller \in Callers : create_reservation_save(caller)

SpecRace == Init /\ [][NextRace]_vars

(* ================= properties ================= *)
(* The properties of the booking runs range over the inputs those runs     *)
(* draw: BookingCustomerIds, BookingEmails, HotelIds, ReservationIds.      *)

Count(records, key, id) == Cardinality(Indices(records, key, id))

(* the stored hotel hotel_id, when there is one *)
HotelRecord(file, hotel_id) ==
  Hotel_load_all(file)[First(Hotel_load_all(file), "hotel_id", hotel_id)]

(* the reservations that reference hotel_id *)
Referencing(file, hotel_id) ==
  Indices(Reservation_load_all(file), "hotel_id", hotel_id)

(* ---- C1 ---- *)
(* C1: in every state reachable by create_hotel, modify_hotel,             *)
(* delete_hotel, reserve_room, Hotel.cancel_reservation,                   *)
(* create_reservation and Reservation.cancel_reservation, every stored     *)
(* hotel has 0 <= rooms_available <= rooms.                                *)
C1_RoomsAvailableWithinRooms ==
  \A i \in DOMAIN Hotel_load_all(hotels) :
    /\ 0 <= Hotel_load_all(hotels)[i].rooms_available
    /\ Hotel_load_all(hotels)[i].rooms_available
         <= Hotel_load_all(hotels)[i].rooms

(* modify_hotel has lowered rooms below the number of rooms reserved: the  *)
(* hotel has one room, none free, and two reservations reference it        *)
C1_Witness ==
  /\ call = "modify_hotel"
  /\ ret = "ok"
  /\ \E i \in DOMAIN Hotel_load_all(hotels) :
       /\ Hotel_load_all(hotels)[i].rooms = 1
       /\ Hotel_load_all(hotels)[i].rooms_available = 0
       /\ Cardinality(Referencing(reservations,
                                  Hotel_load_all(hotels)[i].hotel_id)) = 2

(* ---- C2 ---- *)
C2_UniqueIds ==
  /\ \A id \in CustomerIds :
       Count(Customer_load_all(customers), "customer_id", id) <= 1
  /\ \A id \in HotelIds :
       Count(Hotel_load_all(hotels), "hotel_id", id) <= 1
  /\ \A id \in ReservationIds :
       Count(Reservation_load_all(reservations), "reservation_id", id) <= 1

C2_CreateThenLoad ==
  /\ call' = "create_customer" /\ ret' = "ok" =>
       \A id \in BookingCustomerIds, name \in Names,
             email \in BookingEmails :
         create_customer(id, name, email)
           => Count(Customer_load_all(customers'), "customer_id", id) = 1
  /\ call' = "create_hotel" /\ ret' = "ok" =>
       \A id \in HotelIds, name \in Names, location \in Locations,
          rooms \in RoomsInputs :
         create_hotel(id, name, location, rooms)
           => Count(Hotel_load_all(hotels'), "hotel_id", id) = 1
  /\ call' = "create_reservation" /\ ret' = "ok" =>
       \A id \in ReservationIds, customer_id \in BookingCustomerIds,
          hotel_id \in HotelIds :
         create_reservation(id, customer_id, hotel_id)
           => Count(Reservation_load_all(reservations'),
                    "reservation_id", id) = 1

(* C2: starting from empty stores each store holds at most one record per  *)
(* ID, and right after a successful create(id) loading the store yields    *)
(* exactly one record with that ID.                                        *)
C2_IdUniqueness == [][C2_UniqueIds' /\ C2_CreateThenLoad]_vars

(* a create succeeded on a store that already held a record *)
C2_Witness ==
  /\ call = "create_hotel"
  /\ ret = "ok"
  /\ Len(Hotel_load_all(hotels)) = 2
  /\ Len(Reservation_load_all(reservations)) = 2

(* ---- C3 ---- *)
C3_DuplicateCreate ==
  \/ ret' = "fail" /\ UNCHANGED stores
  \/ /\ call' = "create_customer" =>
          \A id \in BookingCustomerIds, name \in Names,
             email \in BookingEmails :
            AnyMatch(Customer_load_all(customers), "customer_id", id)
              => ~create_customer(id, name, email)
     /\ call' = "create_hotel" =>
          \A id \in HotelIds, name \in Names, location \in Locations,
             rooms \in RoomsInputs :
            AnyMatch(Hotel_load_all(hotels), "hotel_id", id)
              => ~create_hotel(id, name, location, rooms)
     /\ call' = "create_reservation" =>
          \A id \in ReservationIds, customer_id \in BookingCustomerIds,
             hotel_id \in HotelIds :
            AnyMatch(Reservation_load_all(reservations),
                     "reservation_id", id)
              => ~create_reservation(id, customer_id, hotel_id)

(* C3: creating a record whose ID is already present fails and leaves the  *)
(* store unchanged, in all three stores; create_reservation with a used    *)
(* reservation_id leaves the hotel store unchanged too, whatever its other *)
(* arguments. (A step either returns failure with the three stores as they *)
(* were, or it is no create call with an ID that was present.)             *)
C3_DuplicateCreateFails == [][C3_DuplicateCreate]_vars

(* create_reservation was refused for its used id although its customer    *)
(* exists and a hotel has a room free                                      *)
C3_Witness ==
  /\ call = "create_reservation"
  /\ ret = "fail"
  /\ msg = "exists"
  /\ Len(Customer_load_all(customers)) = 1
  /\ \E i \in DOMAIN Hotel_load_all(hotels) :
       Hotel_load_all(hotels)[i].rooms_available > 0

(* ---- C4 ---- *)
(* a create_reservation against a hotel with no room free *)
C4_FullHotel ==
  call' = "create_reservation" =>
    \A hotel_id \in HotelIds :
      RoomsAvailable(hotels, hotel_id) = 0 =>
        \A reservation_id \in ReservationIds,
           customer_id \in BookingCustomerIds :
          create_reservation(reservation_id, customer_id, hotel_id) =>
            /\ ret' = "fail"
            /\ reservations' = reservations
            /\ RoomsAvailable(hotels', hotel_id) = 0
            /\ ( /\ reservation_id # ""
                 /\ ~AnyMatch(Reservation_load_all(reservations),
                              "reservation_id", reservation_id)
                 /\ AnyMatch(Customer_load_all(customers),
                             "customer_id", customer_id)
                 => msg' = "no_rooms" )

(* a hotel created with n rooms, then only reserved *)
C4_Fill ==
  /\ streak'.hotel_id # "" =>
       /\ streak'.reserved <= streak'.rooms
       /\ RoomsAvailable(hotels', streak'.hotel_id)
            = streak'.rooms - streak'.reserved
  /\ streak'.hotel_id # "" /\ call' = "reserve_room" =>
       /\ ret' = "ok" <=> streak.reserved < streak.rooms
       /\ ret' = "ok" => streak'.reserved = streak.reserved + 1
  /\ streak'.hotel_id # "" /\ call' = "create_reservation" =>
       /\ streak.reserved = streak.rooms => ret' = "fail"
       /\ ret' = "ok" => streak'.reserved = streak.reserved + 1

(* C4: a reservation cannot be created against a hotel whose               *)
(* rooms_available is 0: create_reservation fails, the reservation store   *)
(* gains no record and rooms_available stays 0, and the failure is the     *)
(* capacity-exhausted one when the rest of the request is valid. A hotel   *)
(* created with rooms = n takes exactly n reservations or reserve calls,   *)
(* and the next one fails.                                                 *)
C4_NoReservationWithoutRooms == [][C4_FullHotel /\ C4_Fill]_vars

(* a hotel of two rooms was filled since its creation and the next         *)
(* reservation was refused for lack of rooms                               *)
C4_Witness ==
  /\ call = "create_reservation"
  /\ ret = "fail"
  /\ msg = "no_rooms"
  /\ streak.hotel_id # ""
  /\ streak.rooms = 2
  /\ streak.reserved = 2

(* ---- C5 ---- *)
(* the reservation stored under reservation_id *)
Target(reservation_id) ==
  Reservation_load_all(reservations)[
    First(Reservation_load_all(reservations),
          "reservation_id", reservation_id)]

C5_Removed(reservation_id) ==
  /\ ret' = "ok"
  /\ Reservation_load_all(reservations')
       = Without(Reservation_load_all(reservations),
                 "reservation_id", reservation_id)
  /\ Len(Reservation_load_all(reservations'))
       = Len(Reservation_load_all(reservations)) - 1

(* the claim as stated: the room is released in any reachable state *)
C5_AlwaysReleases ==
  call' = "Reservation.cancel_reservation" =>
    \A reservation_id \in ReservationIds :
      /\ AnyMatch(Reservation_load_all(reservations),
                  "reservation_id", reservation_id)
      /\ cancel_reservation(reservation_id)
      => /\ C5_Removed(reservation_id)
         /\ RoomsAvailable(hotels', Target(reservation_id).hotel_id)
              = RoomsAvailable(hotels, Target(reservation_id).hotel_id) + 1

C5_CancelReleasesAlways == [][C5_AlwaysReleases]_vars

(* the hotel is stored and not all of its rooms are free *)
Releasable(hotel_id) ==
  /\ AnyMatch(Hotel_load_all(hotels), "hotel_id", hotel_id)
  /\ HotelRecord(hotels, hotel_id).rooms_available
       < HotelRecord(hotels, hotel_id).rooms

C5_ReleasesWhenPossible ==
  call' = "Reservation.cancel_reservation" =>
    \A reservation_id \in ReservationIds :
      /\ AnyMatch(Reservation_load_all(reservations),
                  "reservation_id", reservation_id)
      /\ cancel_reservation(reservation_id)
      => /\ C5_Removed(reservation_id)
         /\ IF Releasable(Target(reservation_id).hotel_id)
              THEN RoomsAvailable(hotels',
                                  Target(reservation_id).hotel_id)
                     = RoomsAvailable(hotels,
                                      Target(reservation_id).hotel_id) + 1
              ELSE hotels' = hotels

(* C5 (amended): for every reservation in the reservation store,           *)
(* Reservation.cancel_reservation removes it; it increases the             *)
(* rooms_available of the hotel it references by exactly one when that     *)
(* hotel is still stored with rooms_available < rooms, and otherwise       *)
(* leaves the hotel store unchanged.                                       *)
C5_CancelReleasesOneRoom == [][C5_ReleasesWhenPossible]_vars

(* a reservation was cancelled and its room released, leaving another      *)
(* reservation stored                                                      *)
C5_Witness ==
  /\ call = "Reservation.cancel_reservation"
  /\ ret = "ok"
  /\ msg = "none"
  /\ Len(Reservation_load_all(reservations)) = 1
  /\ Len(Hotel_load_all(hotels)) = 2

(* ---- C6 ---- *)
(* the claim as stated: reserve(id) then release(id) on any stored hotel   *)
(* leaves rooms_available as it was before the reserve call                *)
C6_ReserveReleaseAlways ==
  reserved_from.released =>
    RoomsAvailable(hotels, reserved_from.hotel_id)
      = reserved_from.rooms_available

(* C6 (amended): for any stored hotel with rooms_available > 0, reserve(id) *)
(* then release(id) leaves rooms_available equal to its value before the   *)
(* reserve call.                                                           *)
C6_ReserveReleaseRestores ==
  reserved_from.released /\ reserved_from.rooms_available > 0 =>
    RoomsAvailable(hotels, reserved_from.hotel_id)
      = reserved_from.rooms_available

(* release has followed a successful reserve on a hotel with one room      *)
(* already taken                                                           *)
C6_Witness ==
  /\ call = "Hotel.cancel_reservation"
  /\ ret = "ok"
  /\ reserved_from.released
  /\ reserved_from.reserved
  /\ reserved_from.rooms_available = 1
  /\ HotelRecord(hotels, reserved_from.hotel_id).rooms = 2

(* ---- C7 ---- *)
C7_Effect ==
  call' = "create_reservation" /\ ret' = "ok" =>
    \A reservation_id \in ReservationIds, customer_id \in BookingCustomerIds,
       hotel_id \in HotelIds :
      create_reservation(reservation_id, customer_id, hotel_id) =>
        /\ Reservation_load_all(reservations')
             = Append(Reservation_load_all(reservations),
                      [reservation_id |-> reservation_id,
                       customer_id |-> customer_id,
                       hotel_id |-> hotel_id])
        /\ Len(Hotel_load_all(hotels')) = Len(Hotel_load_all(hotels))
        /\ \A i \in DOMAIN Hotel_load_all(hotels) :
             Hotel_load_all(hotels')[i] =
               IF Hotel_load_all(hotels)[i].hotel_id = hotel_id
                 THEN [Hotel_load_all(hotels)[i]
                         EXCEPT !.rooms_available = @ - 1]
                 ELSE Hotel_load_all(hotels)[i]
        /\ customers' = customers

(* C7: a successful create_reservation(rid, cid, hid) appends exactly the  *)
(* record (rid, cid, hid) to the reservation store, decrements             *)
(* rooms_available of hotel hid by exactly one, leaves every other hotel   *)
(* record and every other field of hotel hid unchanged, and leaves the     *)
(* customer store unchanged.                                               *)
C7_CreateReservationEffect == [][C7_Effect]_vars

(* a second reservation was created while two hotels are stored *)
C7_Witness ==
  /\ call = "create_reservation"
  /\ ret = "ok"
  /\ Len(Reservation_load_all(reservations)) = 2
  /\ Len(Hotel_load_all(hotels)) = 2
  /\ Hotel_load_all(hotels)[2].hotel_id
       = Reservation_load_all(reservations)[2].hotel_id

(* ---- C8 ---- *)
C8_Accepts(reservation_id, customer_id, hotel_id) ==
  /\ reservation_id # ""
  /\ ~AnyMatch(Reservation_load_all(reservations),
               "reservation_id", reservation_id)
  /\ AnyMatch(Customer_load_all(customers), "customer_id", customer_id)
  /\ AnyMatch(Hotel_load_all(hotels), "hotel_id", hotel_id)
  /\ RoomsAvailable(hotels, hotel_id) > 0

C8_Decision ==
  call' = "create_reservation" =>
    \A reservation_id \in ReservationIds, customer_id \in BookingCustomerIds,
       hotel_id \in HotelIds :
      create_reservation(reservation_id, customer_id, hotel_id) =>
        /\ ret' \in {"ok", "fail"}
        /\ ret' = "ok"
             <=> C8_Accepts(reservation_id, customer_id, hotel_id)

(* C8: create_reservation(rid, cid, hid) succeeds if and only if rid is    *)
(* non-empty and not in the reservation store, cid is in the customer      *)
(* store, hid is in the hotel store and that hotel has                     *)
(* rooms_available > 0; otherwise it returns failure.                      *)
C8_CreateReservationIff == [][C8_Decision]_vars

(* a reservation was refused for its unknown customer although a hotel had *)
(* a room free                                                             *)
C8_Witness ==
  /\ call = "create_reservation"
  /\ ret = "fail"
  /\ msg = "customer_not_found"
  /\ \E i \in DOMAIN Hotel_load_all(hotels) :
       Hotel_load_all(hotels)[i].rooms_available > 0

(* ---- C9 ---- *)
(* C9: load_all of any of the three stores returns the empty collection,   *)
(* and never an error, whenever the backing file does not exist or holds   *)
(* content that is not valid JSON.                                         *)
C9_LoadAllNeverFails ==
  /\ call = "Customer.load_all" /\ customers.kind # "json"
       => ret = "ok" /\ loaded = <<>>
  /\ call = "Hotel.load_all" /\ hotels.kind # "json"
       => ret = "ok" /\ loaded = <<>>
  /\ call = "Reservation.load_all" /\ reservations.kind # "json"
       => ret = "ok" /\ loaded = <<>>

(* ---- C10 ---- *)
HasAt(email) == \E i \in 1..Len(email) : email[i] = "@"

C10_Decision ==
  call' = "create_customer" =>
    \A id \in CustomerIds, name \in Names, email \in Emails :
      create_customer(id, name, email) =>
        /\ ret' = "ok"
             <=> /\ id # ""
                 /\ name # ""
                 /\ HasAt(email)
                 /\ ~AnyMatch(Customer_load_all(customers),
                              "customer_id", id)
        /\ ret' = "ok" =>
             Customer_load_all(customers')
               = Append(Customer_load_all(customers),
                        [customer_id |-> id, name |-> name,
                         email |-> email])

(* C10: Customer create(id, name, email) succeeds if and only if id and    *)
(* name are non-empty, email contains "@" and id is not already in the     *)
(* store; on success the store is the previous store with exactly the      *)
(* record (id, name, email) appended.                                      *)
C10_CreateCustomerIff == [][C10_Decision]_vars

(* a second customer was created *)
C10_Witness ==
  /\ call = "create_customer"
  /\ ret = "ok"
  /\ Len(Customer_load_all(customers)) = 2

(* ---- C11 ---- *)
(* C11: after any sequence of create_customer, modify_customer and         *)
(* delete_customer from an empty store, every stored customer record has   *)
(* an email that contains "@".                                             *)
C11_StoredEmailsHaveAt ==
  \A i \in DOMAIN Customer_load_all(customers) :
    HasAt(Customer_load_all(customers)[i].email)

(* modify_customer has just succeeded on a store of two customers whose    *)
(* emails differ, so that one of them is not the email of its creation or  *)
(* the two were created with different emails                              *)
C11_Witness ==
  /\ call = "modify_customer"
  /\ ret = "ok"
  /\ Len(Customer_load_all(customers)) = 2
  /\ Customer_load_all(customers)[1].email
       # Customer_load_all(customers)[2].email

(* ---- C12 ---- *)
C12_Effect ==
  call' = "modify_customer" =>
    \A id \in CustomerIds, keys \in SUBSET {"name", "email"},
       name \in Names, email \in Emails :
      modify_customer(id, CustomerKwargs(keys, name, email)) =>
        LET records == Customer_load_all(customers)
            after == Customer_load_all(customers')
            found == AnyMatch(records, "customer_id", id)
            invalid == "email" \in keys /\ ~HasAt(email)
        IN /\ ret' = "fail" <=> ~found \/ invalid
           /\ ret' = "fail" => customers' = customers
           /\ ret' = "ok" =>
                /\ Len(after) = Len(records)
                /\ \A i \in DOMAIN records :
                     IF records[i].customer_id = id
                       THEN /\ after[i].customer_id = id
                            /\ after[i].name =
                                 IF "name" \in keys THEN name
                                 ELSE records[i].name
                            /\ after[i].email =
                                 IF "email" \in keys THEN email
                                 ELSE records[i].email
                       ELSE after[i] = records[i]

(* C12: modify_customer(id, name?, email?) fails when id is not stored or  *)
(* a supplied email has no "@", and then the store is unchanged, a name    *)
(* supplied with the invalid email included; otherwise it sets exactly     *)
(* the supplied fields of the record with that id and leaves customer_id,  *)
(* the other fields, the other records and the number of records alone.    *)
C12_ModifyCustomerEffect == [][C12_Effect]_vars

(* modify_customer changed the second of two customers: its name is now    *)
(* empty and its email is "@", the first keeps name "n1" and email "a@"    *)
C12_Witness ==
  /\ call = "modify_customer"
  /\ ret = "ok"
  /\ Len(Customer_load_all(customers)) = 2
  /\ Customer_load_all(customers)[1].name = "n1"
  /\ Customer_load_all(customers)[1].email = <<"a", "@">>
  /\ Customer_load_all(customers)[2].name = ""
  /\ Customer_load_all(customers)[2].email = <<"@">>

(* ---- C13 ---- *)
C13_Effect ==
  call' = "create_hotel" =>
    \A hotel_id \in HotelIds, name \in Names, location \in Locations,
       rooms \in RoomsInputs :
      create_hotel(hotel_id, name, location, rooms) =>
        LET after == Hotel_load_all(hotels')
        IN /\ ~(rooms.type = "int" /\ rooms.val > 0) =>
                ret' = "fail" /\ hotels' = hotels
           /\ ret' = "ok" =>
                /\ Len(after) = Len(Hotel_load_all(hotels)) + 1
                /\ after[Len(after)].hotel_id = hotel_id
                /\ after[Len(after)].rooms = rooms.val
                /\ after[Len(after)].rooms_available = rooms.val

(* C13: create_hotel(id, name, location, rooms) fails, with the store      *)
(* unchanged, unless rooms is an integer greater than 0; on success the    *)
(* stored hotel has rooms_available equal to rooms.                        *)
C13_CreateHotelRooms == [][C13_Effect]_vars

(* a second hotel was created with the largest number of rooms and all of  *)
(* them are free                                                           *)
C13_Witness ==
  /\ call = "create_hotel"
  /\ ret = "ok"
  /\ Len(Hotel_load_all(hotels)) = 2
  /\ Hotel_load_all(hotels)[2].rooms = MaxRooms
  /\ Hotel_load_all(hotels)[2].rooms_available = MaxRooms

(* ---- C14 ---- *)
(* C14: modify_hotel with a valid rooms value r' on a stored hotel with    *)
(* rooms r and rooms_available a sets rooms to r' and rooms_available to   *)
(* max(0, a + (r' - r)), so that rooms - rooms_available is kept whenever  *)
(* it is at most r'; with a rooms value that is not a positive integer it  *)
(* fails and the stored records are unchanged, whatever name or location   *)
(* came with it. Stated of every call that can be made in a reachable      *)
(* state.                                                                  *)
C14_ModifyHotelRooms ==
  \A hotel_id \in HotelIds :
    AnyMatch(Hotel_load_all(hotels), "hotel_id", hotel_id) =>
      \A keys \in SUBSET {"name", "location", "rooms"},
         name \in ModifyNames, location \in ModifyLocations,
         rooms \in RoomsInputs :
        "rooms" \in keys =>
          LET outcome == Hotel_modify(hotels, hotel_id,
                           HotelKwargs(keys, name, location, rooms))
              i == First(Hotel_load_all(hotels), "hotel_id", hotel_id)
              before == Hotel_load_all(hotels)[i]
              after == Hotel_load_all(outcome.file)[i]
              occupied == before.rooms - before.rooms_available
          IN IF rooms.type = "int" /\ rooms.val > 0
               THEN /\ outcome.ret = "ok"
                    /\ after.rooms = rooms.val
                    /\ after.rooms_available =
                         IF before.rooms_available
                              + (rooms.val - before.rooms) >= 0
                           THEN before.rooms_available
                                  + (rooms.val - before.rooms)
                           ELSE 0
                    /\ occupied <= rooms.val =>
                         after.rooms - after.rooms_available = occupied
               ELSE /\ outcome.ret = "fail"
                    /\ outcome.file = hotels

(* modify_hotel has lowered rooms to 1 on a hotel that had a room taken:   *)
(* no room is free, and the hotel carries the name modify_hotel gave it    *)
C14_Witness ==
  /\ call = "modify_hotel"
  /\ ret = "ok"
  /\ \E i \in DOMAIN Hotel_load_all(hotels) :
       /\ Hotel_load_all(hotels)[i].name \in ModifyNames
       /\ Hotel_load_all(hotels)[i].rooms = 1
       /\ Hotel_load_all(hotels)[i].rooms_available = 0

(* ---- C15 ---- *)
C15_Reserve ==
  call' = "reserve_room" =>
    \A hotel_id \in HotelIds :
      /\ AnyMatch(Hotel_load_all(hotels), "hotel_id", hotel_id)
      /\ reserve_room(hotel_id)
      => LET before == Hotel_load_all(hotels)
             i == First(before, "hotel_id", hotel_id)
         IN /\ ret' = "fail" <=> before[i].rooms_available = 0
            /\ ret' = "fail" => UNCHANGED stores
            /\ ret' = "ok" =>
                 /\ Hotel_load_all(hotels') =
                      [before EXCEPT ![i].rooms_available = @ - 1]
                 /\ UNCHANGED <<customers, reservations>>

C15_Release ==
  call' = "Hotel.cancel_reservation" =>
    \A hotel_id \in HotelIds :
      /\ AnyMatch(Hotel_load_all(hotels), "hotel_id", hotel_id)
      /\ release_room(hotel_id)
      => LET before == Hotel_load_all(hotels)
             i == First(before, "hotel_id", hotel_id)
         IN /\ ret' = "fail" <=> before[i].rooms_available = before[i].rooms
            /\ ret' = "fail" => UNCHANGED stores
            /\ ret' = "ok" =>
                 /\ Hotel_load_all(hotels') =
                      [before EXCEPT ![i].rooms_available = @ + 1]
                 /\ UNCHANGED <<customers, reservations>>

(* C15: on a stored hotel reserve_room fails exactly when rooms_available  *)
(* is 0 and otherwise takes 1 from it; Hotel.cancel_reservation fails      *)
(* exactly when rooms_available equals rooms and otherwise adds 1 to it;   *)
(* nothing else of the hotel store changes and a failing call changes no   *)
(* store.                                                                  *)
C15_ReserveReleaseEffect == [][C15_Reserve /\ C15_Release]_vars

(* a room of one of two stored hotels was reserved and then released *)
C15_Witness ==
  /\ call = "Hotel.cancel_reservation"
  /\ ret = "ok"
  /\ reserved_from.reserved
  /\ reserved_from.released
  /\ Len(Hotel_load_all(hotels)) = 2

(* ---- C16 ---- *)
(* after is before without its i-th record, the others in their order *)
C16_Dropped(before, after, i) ==
  /\ Len(after) = Len(before) - 1
  /\ \A j \in DOMAIN after :
       after[j] = before[IF j < i THEN j ELSE j + 1]

C16_DeleteCustomer ==
  call' = "delete_customer" =>
    \A id \in CustomerIds :
      delete_customer(id) =>
        LET before == Customer_load_all(customers)
            after == Customer_load_all(customers')
        IN IF AnyMatch(before, "customer_id", id)
             THEN /\ ret' = "ok"
                  /\ C16_Dropped(before, after,
                                 First(before, "customer_id", id))
                  /\ Customer_display(customers', id).ret = "fail"
                  /\ \A name \in Names \ {""}, email \in Emails :
                       HasAt(email) =>
                         Customer_create(customers', id, name, email).ret
                           = "ok"
             ELSE /\ ret' = "fail"
                  /\ customers' = customers

C16_DeleteHotel ==
  call' = "delete_hotel" =>
    \A id \in HotelIds :
      delete_hotel(id) =>
        LET before == Hotel_load_all(hotels)
            after == Hotel_load_all(hotels')
        IN IF AnyMatch(before, "hotel_id", id)
             THEN /\ ret' = "ok"
                  /\ C16_Dropped(before, after,
                                 First(before, "hotel_id", id))
                  /\ Hotel_display(hotels', id).ret = "fail"
                  /\ \A name \in Names \ {""}, location \in Locations,
                        rooms \in RoomsInputs :
                       rooms.type = "int" /\ rooms.val > 0 =>
                         Hotel_create(hotels', id, name, location,
                                      rooms).ret = "ok"
             ELSE /\ ret' = "fail"
                  /\ hotels' = hotels

(* C16: delete_customer(id) and delete_hotel(id) remove exactly the record *)
(* with that id and leave the other records as they were when the id is    *)
(* stored, and fail with the store unchanged when it is not; after a       *)
(* successful delete, display of the id reports not-found and a create     *)
(* with that id and valid fields succeeds.                                 *)
C16_DeleteEffect == [][C16_DeleteCustomer /\ C16_DeleteHotel]_vars

(* the first of two hotels was deleted, the other one is still stored,     *)
(* and so are two customers                                                *)
C16_Witness ==
  /\ call = "delete_hotel"
  /\ ret = "ok"
  /\ Len(Hotel_load_all(hotels)) = 1
  /\ Hotel_load_all(hotels)[1].hotel_id = "h2"
  /\ Len(Customer_load_all(customers)) = 2

(* ---- C17 ---- *)
C17_Fails(outcome, file) ==
  /\ outcome.ret = "fail"
  /\ outcome.file = file

(* the calls on an id that is not stored *)
C17_UnknownId ==
  /\ \A id \in BookingCustomerIds :
       ~AnyMatch(Customer_load_all(customers), "customer_id", id) =>
         /\ C17_Fails(Customer_delete(customers, id), customers)
         /\ C17_Fails(Customer_display(customers, id), customers)
         /\ \A keys \in SUBSET {"name", "email"}, name \in Names,
               email \in BookingEmails :
              C17_Fails(Customer_modify(customers, id,
                          CustomerKwargs(keys, name, email)), customers)
  /\ \A id \in SoleHotelIds :
       ~AnyMatch(Hotel_load_all(hotels), "hotel_id", id) =>
         /\ C17_Fails(Hotel_delete(hotels, id), hotels)
         /\ C17_Fails(Hotel_display(hotels, id), hotels)
         /\ C17_Fails(Hotel_reserve_room(hotels, id), hotels)
         /\ C17_Fails(Hotel_cancel_reservation(hotels, id), hotels)
         /\ \A keys \in BookingModifyKeys, name \in ModifyNames,
               location \in Locations, rooms \in RoomsInputs :
              C17_Fails(Hotel_modify(hotels, id,
                          HotelKwargs(keys, name, location, rooms)), hotels)
  /\ \A id \in SoleReservationIds :
       ~AnyMatch(Reservation_load_all(reservations),
                 "reservation_id", id) =>
         /\ C17_Fails(Reservation_cancel(reservations, hotels, id),
                      reservations)
         /\ Reservation_cancel(reservations, hotels, id).hotel_file = hotels

(* the calls with an empty id or name, an invalid email or invalid rooms *)
C17_InvalidInput ==
  /\ \A id \in BookingCustomerIds, name \in Names, email \in BookingEmails :
       /\ id = "" \/ name = "" =>
            C17_Fails(Customer_create(customers, id, name, email),
                      customers)
       /\ ~HasAt(email) =>
            \A keys \in SUBSET {"name", "email"} :
              "email" \in keys =>
                C17_Fails(Customer_modify(customers, id,
                            CustomerKwargs(keys, name, email)), customers)
  /\ \A id \in SoleHotelIds, name \in Names, location \in Locations,
        rooms \in RoomsInputs :
       /\ id = "" \/ name = "" =>
            C17_Fails(Hotel_create(hotels, id, name, location, rooms),
                      hotels)
       /\ ~(rooms.type = "int" /\ rooms.val > 0) =>
            \A keys \in BookingModifyKeys, new_name \in ModifyNames :
              "rooms" \in keys =>
                C17_Fails(Hotel_modify(hotels, id,
                            HotelKwargs(keys, new_name, location, rooms)),
                          hotels)
  /\ \A customer_id \in BookingCustomerIds, hotel_id \in SoleHotelIds :
       /\ C17_Fails(Reservation_create(reservations, hotels, customers,
                                       "", customer_id, hotel_id),
                    reservations)
       /\ Reservation_create(reservations, hotels, customers,
                             "", customer_id, hotel_id).hotel_file = hotels

(* a call never ends in an exception; the one that reported not-found or   *)
(* invalid input wrote no store, and the three files can still be loaded   *)
C17_Step ==
  /\ ret' \in {"ok", "fail"}
  /\ ret' = "fail"
       /\ msg' \in {"not_found", "required", "invalid_email",
                    "invalid_rooms", "customer_not_found",
                    "hotel_not_found"}
       => /\ UNCHANGED stores
          /\ ~LoadRaises(customers')
          /\ ~LoadRaises(hotels')
          /\ ~LoadRaises(reservations')

(* C17: every operation that reports failure because an id is not found   *)
(* or an input is invalid (modify, delete, display, reserve_room,          *)
(* Hotel.cancel_reservation on an unknown id; Reservation.cancel on an     *)
(* unknown reservation id; create with an empty id or name; modify with an *)
(* invalid email or rooms) returns its failure value and raises nothing,   *)
(* leaves the three stores unchanged, and leaves them loadable for the     *)
(* operations that follow.                                                 *)
C17_FailureLeavesStores ==
  [][C17_UnknownId /\ C17_InvalidInput /\ C17_Step]_vars

(* modify_hotel has just refused an invalid rooms value while the three    *)
(* stores each hold a record                                               *)
C17_Witness ==
  /\ call = "modify_hotel"
  /\ ret = "fail"
  /\ msg = "invalid_rooms"
  /\ Len(Customer_load_all(customers)) = 1
  /\ Len(Hotel_load_all(hotels)) = 1
  /\ Len(Reservation_load_all(reservations)) = 1

(* ---- C18 ---- *)
C18_Decision ==
  call' = "Reservation.cancel_reservation" =>
    \A reservation_id \in ReservationIds :
      cancel_reservation(reservation_id) =>
        IF AnyMatch(Reservation_load_all(reservations),
                    "reservation_id", reservation_id)
          THEN /\ ret' = "ok"
               /\ ~AnyMatch(Reservation_load_all(reservations'),
                            "reservation_id", reservation_id)
               /\ Len(Reservation_load_all(reservations'))
                    = Len(Reservation_load_all(reservations)) - 1
               /\ ~Releasable(Target(reservation_id).hotel_id) =>
                    hotels' = hotels
          ELSE /\ ret' = "fail"
               /\ UNCHANGED stores

(* C18: Reservation.cancel_reservation fails only when the reservation is  *)
(* not stored; when it is stored the call returns True and removes the     *)
(* record, also when the release of the hotel's room fails (the hotel was  *)
(* deleted, or its rooms_available already equals rooms), and then the     *)
(* hotel store is unchanged.                                               *)
C18_CancelSucceedsWhenFound == [][C18_Decision]_vars

(* a reservation of a deleted hotel was cancelled: the release reported    *)
(* the hotel as not found and the cancel returned True                     *)
C18_Witness ==
  /\ call = "Reservation.cancel_reservation"
  /\ ret = "ok"
  /\ msg = "not_found"

(* ---- C20 ---- *)
(* C20: in a run made only of create_customer, create_hotel,               *)
(* create_reservation and Reservation.cancel_reservation, every stored     *)
(* hotel has rooms - rooms_available equal to the number of stored         *)
(* reservations that reference it, and that number is at most rooms.       *)
C20_OccupancyAccounting ==
  \A i \in DOMAIN Hotel_load_all(hotels) :
    LET hotel == Hotel_load_all(hotels)[i]
        referencing == Cardinality(Referencing(reservations, hotel.hotel_id))
    IN /\ hotel.rooms - hotel.rooms_available = referencing
       /\ referencing <= hotel.rooms

(* one of two reservations of a hotel of two rooms was cancelled: one      *)
(* reservation references the hotel and one room is free                   *)
C20_Witness ==
  /\ call = "Reservation.cancel_reservation"
  /\ ret = "ok"
  /\ \E i \in DOMAIN Hotel_load_all(hotels) :
       /\ Hotel_load_all(hotels)[i].rooms = 2
       /\ Hotel_load_all(hotels)[i].rooms_available = 1
       /\ Cardinality(Referencing(reservations,
                                  Hotel_load_all(hotels)[i].hotel_id)) = 1

(* ---- C19 ---- *)
(* C19: when every call of reserve_room and create_reservation has run     *)
(* from its load to its return before the next one started, a hotel        *)
(* created with `rooms` rooms has rooms - k rooms available after k        *)
(* successful reserves. (That two calls whose loads both precede the       *)
(* saves can both succeed and take one room only is the state of           *)
(* C19_Witness.)                                                           *)
C19_SequentialReserves ==
  ~overlapped /\ AllReturned /\ streak.hotel_id # "" =>
    RoomsAvailable(hotels, streak.hotel_id) = streak.rooms - streak.reserved

(* the lost update: the hotel was created with two rooms, two calls of     *)
(* reserve_room overlapped and both returned True, and one room is free    *)
C19_Witness ==
  /\ overlapped
  /\ AllReturned
  /\ call = "reserve_room"
  /\ ret = "ok"
  /\ streak.rooms = 2
  /\ streak.reserved = 2
  /\ RoomsAvailable(hotels, streak.hotel_id) = 1
  /\ Len(Reservation_load_all(reservations)) = 0

(* ---- C21 ---- *)
C21_CreateNeedsBoth ==
  call' = "create_reservation" /\ ret' = "ok" =>
    \A reservation_id \in SoleReservationIds,
       customer_id \in BookingCustomerIds, hotel_id \in SoleHotelIds :
      create_reservation(reservation_id, customer_id, hotel_id) =>
        /\ AnyMatch(Customer_load_all(customers), "customer_id", customer_id)
        /\ AnyMatch(Hotel_load_all(hotels), "hotel_id", hotel_id)

C21_DeleteIgnoresReservations ==
  /\ call' = "delete_customer" =>
       \A id \in BookingCustomerIds :
         delete_customer(id) =>
           /\ ret' = "ok"
                <=> AnyMatch(Customer_load_all(customers), "customer_id", id)
           /\ reservations' = reservations
           /\ hotels' = hotels
  /\ call' = "delete_hotel" =>
       \A id \in SoleHotelIds :
         delete_hotel(id) =>
           /\ ret' = "ok"
                <=> AnyMatch(Hotel_load_all(hotels), "hotel_id", id)
           /\ reservations' = reservations
           /\ customers' = customers

(* C21: create_reservation succeeds only when its customer and its hotel   *)
(* are stored at the call; delete_customer and delete_hotel succeed        *)
(* whenever the id is stored, whatever reservations reference it, and      *)
(* write neither the reservation store nor the other of the two stores.    *)
C21_NoReferentialIntegrity ==
  [][C21_CreateNeedsBoth /\ C21_DeleteIgnoresReservations]_vars

(* the customer of a stored reservation was deleted: the reservation is    *)
(* still stored and references a customer that is not                      *)
C21_Witness ==
  /\ call = "delete_customer"
  /\ ret = "ok"
  /\ \E i \in DOMAIN Reservation_load_all(reservations) :
       ~AnyMatch(Customer_load_all(customers), "customer_id",
                 Reservation_load_all(reservations)[i].customer_id)

(* ---- C22 ---- *)
C22_NotFound(outcome, file) ==
  /\ outcome.ret = "fail"
  /\ outcome.msg = "not_found"
  /\ outcome.file = file

(* the claim for the files whose kind is in `kinds` *)
C22_Defaults(kinds) ==
  /\ customers.kind \in kinds =>
       /\ \A name \in Names \ {""}, email \in BookingEmails :
            HasAt(email) =>
              LET outcome == Customer_create(customers, "c1", name, email)
              IN /\ outcome.ret = "ok"
                 /\ outcome.file =
                      JsonFile(<<Customer_to_dict("c1", name, email)>>)
       /\ C22_NotFound(Customer_delete(customers, "c1"), customers)
       /\ C22_NotFound(Customer_display(customers, "c1"), customers)
       /\ \A keys \in SUBSET {"name", "email"}, email \in BookingEmails :
            C22_NotFound(Customer_modify(customers, "c1",
                           CustomerKwargs(keys, "n1", email)), customers)
  /\ hotels.kind \in kinds =>
       /\ \A rooms \in RoomsInputs :
            rooms.type = "int" /\ rooms.val > 0 =>
              LET outcome == Hotel_create(hotels, "h1", "n1", "l1", rooms)
              IN /\ outcome.ret = "ok"
                 /\ outcome.file =
                      JsonFile(<<Hotel_to_dict("h1", "n1", "l1",
                                               rooms.val)>>)
       /\ C22_NotFound(Hotel_delete(hotels, "h1"), hotels)
       /\ C22_NotFound(Hotel_display(hotels, "h1"), hotels)
       /\ C22_NotFound(Hotel_reserve_room(hotels, "h1"), hotels)
       /\ C22_NotFound(Hotel_cancel_reservation(hotels, "h1"), hotels)
       /\ \A keys \in BookingModifyKeys, rooms \in RoomsInputs :
            C22_NotFound(Hotel_modify(hotels, "h1",
                           HotelKwargs(keys, "n1", "l1", rooms)), hotels)
  /\ reservations.kind \in kinds =>
       /\ C22_NotFound(Reservation_cancel(reservations, hotels, "r1"),
                       reservations)
       /\ /\ AnyMatch(Customer_load_all(customers), "customer_id", "c1")
          /\ RoomsAvailable(hotels, "h1") > 0
          => LET outcome == Reservation_create(reservations, hotels,
                                               customers, "r1", "c1", "h1")
             IN /\ outcome.ret = "ok"
                /\ outcome.file =
                     JsonFile(<<Reservation_to_dict("r1", "c1", "h1")>>)

(* C22: when the file of a store is missing or holds content that is not   *)
(* a JSON document, a create with valid fields succeeds and leaves the     *)
(* file holding exactly the one new record, while modify, delete,          *)
(* display, reserve_room and the two cancel_reservation on any id fail as  *)
(* not-found and leave the file as it was.                                 *)
C22_DamagedFileDefaults ==
  C22_Defaults({"missing", "malformed", "undecodable"})

(* ---- C23 ---- *)
(* C23: after any sequence of create, modify and delete operations from    *)
(* empty stores, every stored customer record and every stored hotel       *)
(* record has a non-empty id and a non-empty name.                         *)
C23_NonEmptyIdAndName ==
  /\ \A i \in DOMAIN Customer_load_all(customers) :
       /\ Customer_load_all(customers)[i].customer_id # ""
       /\ Customer_load_all(customers)[i].name # ""
  /\ \A i \in DOMAIN Hotel_load_all(hotels) :
       /\ Hotel_load_all(hotels)[i].hotel_id # ""
       /\ Hotel_load_all(hotels)[i].name # ""

====
